---- MODULE Spec2Model ----
(***************************************************************************)
(* Model of the form monitor's run() loop.  Two versions of the script are *)
(* modelled side by side, selected by the variable `variant`:              *)
(*   "monitor"  - src/monitor.js (the file the workflow executes)          *)
(*   "part_000" - src/unnamed/part_000 lines 1-245 (the revised script)    *)
(* One action is one resumption of run(): it covers the awaited call and   *)
(* the synchronous code that follows it up to the next await.              *)
(*                                                                         *)
(* Strings are sequences of tokens (short TLA+ strings); a JavaScript      *)
(* value is a record [t, v] tagged with its type.                          *)
(***************************************************************************)
EXTENDS Integers, Sequences, FiniteSets, TLC

\* ---------------------------------------------------------------- bounds
MaxRows == 2
MaxClock == 1
MaxFaults == 1

\* ------------------------------------------------------ JavaScript values
Str(s) == [t |-> "string", v |-> s]
Num(n) == [t |-> "number", v |-> n]
Undefined == [t |-> "undefined", v |-> <<>>]

IsStr(x) == x.t = "string"
IsNum(x) == x.t = "number"
IsUndefined(x) == x.t = "undefined"

\* Variant of Truthy: only undefined is falsy, the empty string counts as present
TruthyDefined(x) == IsStr(x)

\* JavaScript truthiness of a cell: undefined and '' are falsy.
Truthy(x) == IsStr(x) /\ x.v # <<>>

\* a || b
OrElse(a, b) == IF Truthy(a) THEN a ELSE b

\* ------------------------------------------------------- string functions
WS == " "

RECURSIVE TrimLeft(_)
TrimLeft(s) == IF s # <<>> /\ Head(s) = WS THEN TrimLeft(Tail(s)) ELSE s

RECURSIVE TrimRight(_)
TrimRight(s) ==
    IF s # <<>> /\ s[Len(s)] = WS THEN TrimRight(SubSeq(s, 1, Len(s) - 1)) ELSE s

\* String.prototype.trim
Trim(s) == TrimRight(TrimLeft(s))

\* x?.trim()
OptTrim(x) == IF IsUndefined(x) THEN Undefined ELSE Str(Trim(x.v))

\* String.prototype.includes
Includes(s, sub) ==
    \E i \in 0..(Len(s) - Len(sub)) : SubSeq(s, i + 1, i + Len(sub)) = sub

\* String.prototype.indexOf for a one-token needle; 0 when absent
RECURSIVE IndexOf(_, _, _)
IndexOf(s, tok, i) ==
    IF i > Len(s) THEN 0
    ELSE IF s[i] = tok THEN i
    ELSE IndexOf(s, tok, i + 1)

\* String.prototype.replace(tok, repl) with a string pattern: first match only
ReplaceFirst(s, tok, repl) ==
    LET i == IndexOf(s, tok, 1)
    IN  IF i = 0 THEN s
        ELSE SubSeq(s, 1, i - 1) \o repl \o SubSeq(s, i + 1, Len(s))

\* String.prototype.split(tok): the pieces between the occurrences of tok
RECURSIVE Split(_, _)
Split(s, tok) ==
    LET i == IndexOf(s, tok, 1)
    IN  IF i = 0 THEN <<s>>
        ELSE <<SubSeq(s, 1, i - 1)>> \o Split(SubSeq(s, i + 1, Len(s)), tok)

\* Array.prototype.join(sep)
RECURSIVE Join(_, _)
Join(parts, sep) ==
    IF parts = <<>> THEN <<>>
    ELSE IF Len(parts) = 1 THEN parts[1]
    ELSE parts[1] \o sep \o Join(Tail(parts), sep)

\* `${n}` for a number
NumToStr(n) == <<ToString(n)>>

\* ------------------------------------------------------------ config rows
\* Column positions of the destructuring `[url, emailSelector, ...] = row`
ColUrl == 1
ColEmailSelector == 2
ColEmailValue == 3
ColPasswordSelector == 4
ColPasswordValue == 5
ColConfirmSelector == 6
ColConfirmValue == 7
ColCheckboxSelector == 8
ColSubmitButtonSelector == 9
ColRedirectURL == 10
ColLabel == 11

\* Array destructuring: a position past the end of the row is undefined.
Cell(row, i) == IF i <= Len(row) THEN Str(row[i]) ELSE Undefined

\* The marker the classifier looks for in the final URL
REGISTER == <<"/register">>

\* Representative rows of the config sheet (trailing empty cells are
\* omitted by the Sheets API, so rows may be shorter than eleven cells).
RowFull ==
    << <<"https://ex.test", "/register">>,
       <<"#e">>, <<"a", "@", "b.com">>,
       <<"#p">>, <<"x">>,
       <<"#c">>, <<>>,
       <<"#t">>,
       <<"#go">>,
       <<"/welcome">>,
       <<"My", " ", "Form">> >>

RowShort ==
    << <<"https://two.test", "/signup">>,
       <<" ", "#e", " ">>, <<"a", "@", "b", "@", "c.com">>,
       <<>>, <<>>,
       <<" ">> >>

Rows == {RowFull, RowShort}

RECURSIVE SeqsUpTo(_, _)
SeqsUpTo(S, n) ==
    IF n = 0 THEN {<<>>}
    ELSE LET shorter == SeqsUpTo(S, n - 1)
         IN  shorter \cup {Append(q, x) : q \in {r \in shorter : Len(r) = n - 1}, x \in S}

\* ------------------------------------------------- per-variant pure steps
Variants == {"monitor", "part_000"}

\* part_000:93-98 trims the five selectors; monitor.js uses the raw cell.
Selector(v, row, col) ==
    IF v = "part_000" THEN OptTrim(Cell(row, col)) ELSE Cell(row, col)

\* The value handed to page.fill for the email field at clock value t.
\* monitor.js:94 calls emailValue.includes unguarded (TypeError on undefined).
EmailThrows(v, emailValue) == v = "monitor" /\ IsUndefined(emailValue)

DynamicEmail(v, emailValue, t) ==
    IF v = "monitor"
    THEN IF Includes(emailValue.v, <<"@">>)
         THEN Str(ReplaceFirst(emailValue.v, "@", <<"+">> \o NumToStr(t) \o <<"@">>))
         ELSE emailValue
    ELSE IF Truthy(emailValue) /\ Includes(emailValue.v, <<"@">>)
         THEN LET parts == Split(emailValue.v, "@")
              IN  Str(parts[1] \o <<"+">> \o NumToStr(t) \o <<"@">> \o parts[2])
         ELSE emailValue

\* The value handed to page.fill for the confirm field.
ConfirmData(v, confirmValue, passwordValue) ==
    IF v = "monitor" THEN confirmValue
    ELSE OrElse(OrElse(confirmValue, passwordValue), Str(<<>>))

\* Tokens outside the class [\w\d-_]
NonWord == {" ", "/", "@", "+", ".", ":", "#"}

\* replace(/[^\w\d-_]/g, '_')
ReplaceNonWord(s) == [i \in 1..Len(s) |-> IF s[i] \in NonWord THEN "_" ELSE s[i]]

\* replace(/\s+/g, '_'): every run of whitespace becomes one underscore
RECURSIVE ReplaceWsRuns(_)
ReplaceWsRuns(s) ==
    IF s = <<>> THEN <<>>
    ELSE IF Head(s) = WS THEN <<"_">> \o ReplaceWsRuns(TrimLeft(s))
    ELSE <<Head(s)>> \o ReplaceWsRuns(Tail(s))

\* monitor.js:135 calls label.replace unguarded (TypeError on undefined).
LabelThrows(v, label) == v = "monitor" /\ IsUndefined(label)

SafeLabel(v, label) ==
    IF v = "monitor" THEN ReplaceWsRuns(label.v)
    ELSE ReplaceNonWord(OrElse(label, Str(<<"unknown">>)).v)

ScreenshotName(v, label, t) ==
    <<"fail_">> \o SafeLabel(v, label) \o <<"_">> \o NumToStr(t) \o <<".png">>

\* ------------------------------------------------------------ environment
\* URLs page.url() may report after the settlement wait
FinalUrls ==
    { <<"https://ex.test", "/register">>,
      <<"https://ex.test", "/welcome", "/123">>,
      <<"https://ex.test", "/other">>,
      <<"https://ex.test", "/register", "?next=", "/welcome">> }

\* textContent of the elements matching the inline-error selector
InlineTexts ==
    { <<>>,
      << <<" ", "Email taken", " ">>, <<" ">>, <<"Too short">> >> }

\* Messages of the exceptions the browser automation may raise
LaunchError == <<"browserType.launch: failed">>
ContextError == <<"browser.newContext: failed">>
PageError == <<"context.newPage: failed">>
GotoError == <<"page.goto: net::ERR_NAME_NOT_RESOLVED">>
ScreenshotError == <<"page.screenshot: Target closed">>
ValueTypeError == <<"value: expected string, got undefined">>
IncludesTypeError == <<"Cannot read properties of undefined (reading 'includes')">>
ReplaceTypeError == <<"Cannot read properties of undefined (reading 'replace')">>
TimeoutError(op, sel) == <<"page.", op, ": Timeout exceeded waiting for ">> \o sel

\* ------------------------------------------------------------------ state
StatusSuccess == Str(<<"PASS">>)   \* the check-mark cell
StatusFailure == Str(<<"FAIL">>)   \* the cross-mark cell

\* Variant of NotAvailable: loadTime starts as the number 0
LoadTimeZero == Num(0)
NotAvailable == Str(<<"N/A">>)

VARIABLES
    variant,        \* which version of the script runs
    configRows,     \* what getConfigRows() returns
    pc,             \* position of run()
    idx,            \* index of the row the for-of loop is at
    now,            \* the clock read by Date.now() / new Date()
    openBrowsers,   \* browsers launched and not yet closed
    timestamp, start, loadTime, status, error,   \* locals of the iteration
    caught,         \* message of the exception caught by the catch block
    pending,        \* exception thrown out of the catch block, if any
    finalUrl,       \* page.url() after the settlement wait
    inlineTexts,    \* textContent of the page's inline-error elements
    screenshotName, \* file name computed in the catch block
    pageLog,        \* calls made on the current page, in order
    faults,         \* exceptions raised by the browser automation so far
    results         \* rows appended to the results sheet, in order

vars == << variant, configRows, pc, idx, now, openBrowsers, timestamp, start,
           loadTime, status, error, caught, pending, finalUrl, inlineTexts,
           screenshotName, pageLog, faults, results >>

\* the row of the current iteration and its destructured cells
row == configRows[idx]
url == Cell(row, ColUrl)
emailSelector == Selector(variant, row, ColEmailSelector)
emailValue == Cell(row, ColEmailValue)
passwordSelector == Selector(variant, row, ColPasswordSelector)
passwordValue == Cell(row, ColPasswordValue)
confirmSelector == Selector(variant, row, ColConfirmSelector)
confirmValue == Cell(row, ColConfirmValue)
checkboxSelector == Selector(variant, row, ColCheckboxSelector)
submitButtonSelector == Selector(variant, row, ColSubmitButtonSelector)
redirectURL == Cell(row, ColRedirectURL)
label == Cell(row, ColLabel)

Call(op, sel, val, ok) == [op |-> op, sel |-> sel, val |-> val, ok |-> ok]

Init ==
    /\ variant \in Variants
    /\ configRows \in SeqsUpTo(Rows, MaxRows)
    /\ pc = "start"
    /\ idx = 0
    /\ now = 0
    /\ openBrowsers = 0
    /\ timestamp = Undefined
    /\ start = Undefined
    /\ loadTime = Undefined
    /\ status = Undefined
    /\ error = Undefined
    /\ caught = Undefined
    /\ pending = Undefined
    /\ finalUrl = Undefined
    /\ inlineTexts = <<>>
    /\ screenshotName = Undefined
    /\ pageLog = <<>>
    /\ faults = 0
    /\ results = <<>>

\* ------------------------------------------------------- classification
\* Variant of StillOnForm: the marker is only recognised at the end of the URL
StillOnFormAtEnd(u) == u # <<>> /\ u[Len(u)] = "/register"

\* finalUrl.includes('/register')
StillOnForm(u) == Includes(u, REGISTER)

\* part_000:201; monitor.js never looks at redirectURL
RedirectMismatch(v, redirect, u) ==
    v = "part_000" /\ Truthy(redirect) /\ ~Includes(u, redirect.v)

\* els.map(el => el.textContent.trim()).filter(Boolean)
RECURSIVE ErrorMsgs(_)
ErrorMsgs(texts) ==
    IF texts = <<>> THEN <<>>
    ELSE LET t == Trim(Head(texts))
         IN  (IF t = <<>> THEN <<>> ELSE <<t>>) \o ErrorMsgs(Tail(texts))

\* part_000:192-196
ScanMessage(texts, u) ==
    IF ErrorMsgs(texts) # <<>>
    THEN <<"Validation errors: ">> \o Join(ErrorMsgs(texts), <<" | ">>)
    ELSE <<"Form did not redirect - ended on: ">> \o u

\* monitor.js:125
RegisterMessage(u) ==
    <<"Form did not redirect, still on register page (likely due to validation error). Final URL: ">> \o u

\* part_000:202
MismatchMessage(redirect, u) ==
    <<"Redirect URL mismatch - expected \"">> \o redirect \o <<"\", got \"">> \o u \o <<"\"">>

\* Variant of ElapsedMs: the start time is not subtracted
ElapsedSinceEpoch(t, t0) == t

\* loadTime = Date.now() - start
ElapsedMs(t, t0) == t - t0

\* new Date().toISOString()
IsoString(t) == <<"T", ToString(t), "Z">>

\* endTime.toLocaleString('en-GB', {...}): "DD/MM/YYYY, HH:MM"
LocaleString(t) == <<"date(", ToString(t), ")", ",", " ", "time(", ToString(t), ")">>

MarkerRow(t) ==
    [ timestamp |-> Str(<<"END OF BATCH - ">> \o ReplaceFirst(LocaleString(t), ",", <<>>)),
      url |-> Str(<<>>), loadTime |-> Str(<<>>), status |-> Str(<<>>),
      error |-> Str(<<>>), label |-> Str(<<>>) ]

\* Variant of CatchError: a fixed text instead of the exception's message
CatchErrorGeneric(v, msg) == <<"Test failed">>

\* Variant of CatchError: the catch block leaves the error text empty
CatchErrorBlank(v, msg) == <<>>

\* catch (err): error = err.message  (part_000: err.message || String(err))
CatchError(v, msg) == IF v = "part_000" /\ msg = <<>> THEN <<"Error">> ELSE msg

\* Variant of ErrorAfterScreenshot: the screenshot error replaces the original
ErrorAfterScreenshotMasked(err, shotMsg) == shotMsg

\* the inner catch (sErr) of part_000:220 only logs
ErrorAfterScreenshot(err, shotMsg) == err

\* ---------------------------------------------------------------- actions
\* An exception with message msg is thrown inside the try block: the catch
\* block runs up to its first await (the screenshot).
Throw(msg) ==
    /\ caught' = Str(msg)
    /\ error' = Str(CatchError(variant, msg))
    /\ IF LabelThrows(variant, label)
       THEN /\ pending' = Str(ReplaceTypeError)
            /\ screenshotName' = screenshotName
            /\ pc' = "close"
       ELSE /\ pending' = pending
            /\ screenshotName' = Str(ScreenshotName(variant, label, now))
            /\ pc' = "screenshot"

NoThrow == UNCHANGED << caught, error, pending, screenshotName >>

\* The browser automation raises an exception (a bounded number per run)
Fault == faults < MaxFaults /\ faults' = faults + 1
NoFault == UNCHANGED faults

\* const configRows = await getConfigRows()
GetConfigRows ==
    /\ pc = "start"
    /\ pc' = "loop"
    /\ UNCHANGED << variant, configRows, idx, now, openBrowsers, timestamp, start,
                    loadTime, status, error, caught, pending, finalUrl, inlineTexts,
                    screenshotName, pageLog, faults, results >>

\* for (const row of configRows): a new iteration with fresh bindings
LoopNext ==
    /\ pc = "loop"
    /\ idx < Len(configRows)
    /\ idx' = idx + 1
    /\ pc' = "launch"
    /\ timestamp' = Undefined
    /\ start' = Undefined
    /\ loadTime' = Undefined
    /\ status' = Undefined
    /\ error' = Undefined
    /\ caught' = Undefined
    /\ finalUrl' = Undefined
    /\ inlineTexts' = <<>>
    /\ screenshotName' = Undefined
    /\ pageLog' = <<>>
    /\ UNCHANGED << variant, configRows, now, openBrowsers, pending, faults, results >>

\* await chromium.launch()
Launch ==
    /\ pc = "launch"
    /\ \/ /\ openBrowsers' = openBrowsers + 1
          /\ pc' = "newContext"
          /\ UNCHANGED pending
          /\ NoFault
       \/ /\ Fault
          /\ pending' = Str(LaunchError)
          /\ pc' = "rejected"
          /\ UNCHANGED openBrowsers
    /\ UNCHANGED << variant, configRows, idx, now, timestamp, start, loadTime, status,
                    error, caught, finalUrl, inlineTexts, screenshotName, pageLog,
                    results >>

\* await browser.newContext({...})
NewContext ==
    /\ pc = "newContext"
    /\ \/ /\ pc' = "newPage"
          /\ UNCHANGED pending
          /\ NoFault
       \/ /\ Fault
          /\ pending' = Str(ContextError)
          /\ pc' = "rejected"
    /\ UNCHANGED << variant, configRows, idx, now, openBrowsers, timestamp, start,
                    loadTime, status, error, caught, finalUrl, inlineTexts,
                    screenshotName, pageLog, results >>

\* Variant of NewPage: status, loadTime and error are declared once, before
\* the loop, and keep what the previous target left in them
NewPageInheritsOutcome ==
    /\ pc = "newPage"
    /\ \/ /\ timestamp' = Str(IsoString(now))
          /\ loadTime' = IF results = <<>> THEN NotAvailable ELSE results[Len(results)].loadTime
          /\ status' = IF results = <<>> THEN StatusFailure ELSE results[Len(results)].status
          /\ error' = IF results = <<>> THEN Str(<<>>) ELSE results[Len(results)].error
          /\ start' = Num(now)
          /\ pc' = "goto"
          /\ UNCHANGED pending
          /\ NoFault
       \/ /\ Fault
          /\ pending' = Str(PageError)
          /\ pc' = "rejected"
          /\ UNCHANGED << timestamp, loadTime, status, error, start >>
    /\ UNCHANGED << variant, configRows, idx, now, openBrowsers, caught, finalUrl,
                    inlineTexts, screenshotName, pageLog, results >>

\* await context.newPage(), then the declarations up to page.route
NewPage ==
    /\ pc = "newPage"
    /\ \/ /\ timestamp' = Str(IsoString(now))
          /\ loadTime' = NotAvailable
          /\ status' = StatusFailure
          /\ error' = Str(<<>>)
          /\ start' = Num(now)
          /\ pc' = "goto"
          /\ UNCHANGED pending
          /\ NoFault
       \/ /\ Fault
          /\ pending' = Str(PageError)
          /\ pc' = "rejected"
          /\ UNCHANGED << timestamp, loadTime, status, error, start >>
    /\ UNCHANGED << variant, configRows, idx, now, openBrowsers, caught, finalUrl,
                    inlineTexts, screenshotName, pageLog, results >>

\* What a step that only talks to the page leaves alone
PageFrame ==
    UNCHANGED << variant, configRows, idx, now, openBrowsers, timestamp, start,
                 loadTime, status, finalUrl, inlineTexts, results >>

\* Variant of FillCall: a fill that times out is only logged and the next
\* step is taken
FillCallSwallowed(sel, val, next) ==
    /\ \/ pageLog' = Append(pageLog, Call("fill", sel, val, ~IsUndefined(val))) /\ NoFault
       \/ pageLog' = Append(pageLog, Call("fill", sel, val, FALSE)) /\ Fault
    /\ pc' = next
    /\ NoThrow

\* await page.fill(sel, val): resolves, or throws inside the try block
FillCall(sel, val, next) ==
    IF IsUndefined(val)
    THEN /\ pageLog' = Append(pageLog, Call("fill", sel, val, FALSE))
         /\ Throw(ValueTypeError)
         /\ NoFault
    ELSE \/ /\ pageLog' = Append(pageLog, Call("fill", sel, val, TRUE))
            /\ pc' = next
            /\ NoThrow
            /\ NoFault
         \/ /\ Fault
            /\ pageLog' = Append(pageLog, Call("fill", sel, val, FALSE))
            /\ Throw(TimeoutError("fill", sel.v))

\* await page.click(sel)
ClickCall(sel, next) ==
    \/ /\ pageLog' = Append(pageLog, Call("click", sel, Undefined, TRUE))
       /\ pc' = next
       /\ NoThrow
       /\ NoFault
    \/ /\ Fault
       /\ pageLog' = Append(pageLog, Call("click", sel, Undefined, FALSE))
       /\ Throw(TimeoutError("click", sel.v))

\* if (!sel): the step is not taken
SkipTo(next) == pc' = next /\ NoThrow /\ NoFault /\ UNCHANGED pageLog

\* await page.route(...); await page.goto(url, ...)
Goto ==
    /\ pc = "goto"
    /\ \/ /\ pageLog' = Append(pageLog, Call("goto", url, Undefined, TRUE))
          /\ pc' = "consent"
          /\ NoThrow
          /\ NoFault
       \/ /\ Fault
          /\ pageLog' = Append(pageLog, Call("goto", url, Undefined, FALSE))
          /\ Throw(GotoError)
    /\ PageFrame

\* Variant of Consent without the inner try/catch: every outcome but the
\* dismissal is an exception of the outer try block
ConsentRethrows ==
    /\ pc = "consent"
    /\ \E o \in {"absent", "clickFailed", "stillAttached", "dismissed"} :
          /\ pageLog' = Append(pageLog, Call("consent", Undefined, Undefined, o = "dismissed"))
          /\ IF o = "dismissed"
             THEN pc' = "email" /\ NoThrow
             ELSE Throw(TimeoutError("waitForSelector", <<"#CybotCookiebotDialog">>))
    /\ NoFault
    /\ PageFrame

\* The Cookiebot try/catch: the accept button never shows, the click fails,
\* the dialog stays attached, or the dialog is dismissed.  All but the last
\* end in the catch, which only logs.
ConsentOutcomes == {"absent", "clickFailed", "stillAttached", "dismissed"}

Consent ==
    /\ pc = "consent"
    /\ \E o \in ConsentOutcomes :
          pageLog' = Append(pageLog, Call("consent", Undefined, Undefined, o = "dismissed"))
    /\ pc' = "email"
    /\ NoThrow
    /\ NoFault
    /\ PageFrame

FillEmail ==
    /\ pc = "email"
    /\ IF ~Truthy(emailSelector) THEN SkipTo("password")
       ELSE IF EmailThrows(variant, emailValue)
            THEN Throw(IncludesTypeError) /\ NoFault /\ UNCHANGED pageLog
            ELSE FillCall(emailSelector, DynamicEmail(variant, emailValue, now), "password")
    /\ PageFrame

FillPassword ==
    /\ pc = "password"
    /\ IF ~Truthy(passwordSelector) THEN SkipTo("confirm")
       ELSE FillCall(passwordSelector, passwordValue, "confirm")
    /\ PageFrame

\* Variant of ClickCheckbox: the checkbox step is never taken
ClickCheckboxSkipped ==
    /\ pc = "checkbox"
    /\ SkipTo("submit")
    /\ PageFrame

FillConfirm ==
    /\ pc = "confirm"
    /\ IF ~Truthy(confirmSelector) THEN SkipTo("checkbox")
       ELSE FillCall(confirmSelector,
                     ConfirmData(variant, confirmValue, passwordValue), "checkbox")
    /\ PageFrame

ClickCheckbox ==
    /\ pc = "checkbox"
    /\ IF ~Truthy(checkboxSelector) THEN SkipTo("submit")
       ELSE ClickCall(checkboxSelector, "submit")
    /\ PageFrame

ClickSubmit ==
    /\ pc = "submit"
    /\ IF ~Truthy(submitButtonSelector) THEN SkipTo("settle")
       ELSE ClickCall(submitButtonSelector, "settle")
    /\ PageFrame

\* How the settlement wait ends.  part_000 races waitForNavigation against
\* waitForTimeout inside a try/catch; monitor.js only waits for the timer.
SettleOutcomes(v) ==
    IF v = "part_000" THEN {"navigated", "timer", "rejected"} ELSE {"timer"}

\* Milliseconds: the timeout of waitForNavigation, the fixed delay of
\* waitForTimeout, and the moments (after the submit click) at which the page
\* may fire its load event or fail to navigate
NavTimeout == 8000
FallbackDelay(v) == IF v = "part_000" THEN 8000 ELSE 5000
NavTimes == {100, 20000}

\* When the promise of page.waitForNavigation settles: with the load event
\* or the navigation failure if that comes before the timeout, else with the
\* timeout
NavWaitSettles(t) == IF t < NavTimeout THEN t ELSE NavTimeout

\* Promise.race settles with the first of its promises
Race(a, b) == IF a < b THEN a ELSE b

\* Variant of WaitDuration: run() awaits the load event alone
WaitForLoadOnly(v, t) == t

\* How long run() is suspended in the settlement wait
WaitDuration(v, t) ==
    IF v = "part_000" THEN Race(NavWaitSettles(t), FallbackDelay(v)) ELSE FallbackDelay(v)

\* How far the settlement wait ran past the fixed delay
Overrun(v, t) ==
    IF WaitDuration(v, t) > FallbackDelay(v) THEN WaitDuration(v, t) - FallbackDelay(v) ELSE 0

\* The settlement wait, then page.url() and the synchronous classification.
\* The log entry of the wait carries its overrun.
Settle ==
    /\ pc = "settle"
    /\ \E o \in SettleOutcomes(variant), t \in NavTimes, u \in FinalUrls, texts \in InlineTexts :
          /\ o = "navigated" => t < NavTimeout
          /\ o = "timer" => t >= FallbackDelay(variant)
          /\ pageLog' = Append(pageLog, Call("wait", Undefined, Num(Overrun(variant, t)), TRUE))
          /\ finalUrl' = Str(u)
          /\ inlineTexts' = IF StillOnForm(u) THEN texts ELSE <<>>
          /\ IF StillOnForm(u)
             THEN IF variant = "part_000"
                  THEN /\ pc' = "scan"
                       /\ NoThrow
                       /\ UNCHANGED << loadTime, status >>
                  ELSE /\ Throw(RegisterMessage(u))
                       /\ UNCHANGED << loadTime, status >>
             ELSE IF RedirectMismatch(variant, redirectURL, u)
                  THEN /\ Throw(MismatchMessage(redirectURL.v, u))
                       /\ UNCHANGED << loadTime, status >>
                  ELSE /\ loadTime' = Num(ElapsedMs(now, start.v))
                       /\ status' = StatusSuccess
                       /\ pc' = "close"
                       /\ NoThrow
    /\ NoFault
    /\ UNCHANGED << variant, configRows, idx, now, openBrowsers, timestamp, start,
                    results >>

\* part_000:188-198: await page.$$eval(...) and the throw that follows
Scan ==
    /\ pc = "scan"
    /\ pageLog' = Append(pageLog, Call("$$eval", Undefined, Undefined, TRUE))
    /\ Throw(ScanMessage(inlineTexts, finalUrl.v))
    /\ NoFault
    /\ PageFrame

\* Variant of Screenshot: a screenshot that fails is taken a second time
ScreenshotRetried ==
    /\ pc = "screenshot"
    /\ \/ /\ pageLog' = Append(pageLog, Call("screenshot", Undefined, screenshotName, TRUE))
          /\ NoFault
       \/ /\ Fault
          /\ pageLog' = pageLog \o << Call("screenshot", Undefined, screenshotName, FALSE),
                                      Call("screenshot", Undefined, screenshotName, TRUE) >>
    /\ pc' = "close"
    /\ UNCHANGED << variant, configRows, idx, now, openBrowsers, timestamp, start,
                    loadTime, status, error, caught, pending, finalUrl, inlineTexts,
                    screenshotName, results >>

\* Variant of Screenshot: the catch block closes the browser before it takes
\* the screenshot
ScreenshotAfterClose ==
    /\ pc = "screenshot"
    /\ openBrowsers' = openBrowsers - 1
    /\ pageLog' = Append(pageLog, Call("screenshot", Undefined, screenshotName, FALSE))
    /\ pc' = "log"
    /\ UNCHANGED << variant, configRows, idx, now, timestamp, start, loadTime, status,
                    error, caught, pending, finalUrl, inlineTexts, screenshotName,
                    faults, results >>

\* await page.screenshot({ path, fullPage: true }) in the catch block
Screenshot ==
    /\ pc = "screenshot"
    /\ \/ /\ pageLog' = Append(pageLog, Call("screenshot", Undefined, screenshotName, TRUE))
          /\ UNCHANGED << error, pending >>
          /\ NoFault
       \/ /\ Fault
          /\ pageLog' = Append(pageLog, Call("screenshot", Undefined, screenshotName, FALSE))
          /\ IF variant = "part_000"
             THEN /\ error' = Str(ErrorAfterScreenshot(error.v, ScreenshotError))
                  /\ UNCHANGED pending
             ELSE /\ pending' = Str(ScreenshotError)
                  /\ UNCHANGED error
    /\ pc' = "close"
    /\ UNCHANGED << variant, configRows, idx, now, openBrowsers, timestamp, start,
                    loadTime, status, caught, finalUrl, inlineTexts, screenshotName,
                    results >>

\* Variant of Close: browser.close() sits at the end of the try block, so it
\* is skipped once an exception was caught
CloseOnSuccessOnly ==
    /\ pc = "close"
    /\ openBrowsers' = IF caught = Undefined THEN openBrowsers - 1 ELSE openBrowsers
    /\ pc' = "log"
    /\ UNCHANGED << variant, configRows, idx, now, timestamp, start, loadTime, status,
                    error, caught, pending, finalUrl, inlineTexts, screenshotName,
                    pageLog, faults, results >>

\* Variant of Close: browser.close() is called without await and the browser
\* is still open when run() goes on
CloseNotAwaited ==
    /\ pc = "close"
    /\ pc' = "log"
    /\ UNCHANGED << variant, configRows, idx, now, openBrowsers, timestamp, start,
                    loadTime, status, error, caught, pending, finalUrl, inlineTexts,
                    screenshotName, pageLog, faults, results >>

\* Variant of Close: the finally block appends the row and leaves the browser
\* open
CloseLogsFirst ==
    /\ pc = "close"
    /\ results' = Append(results, [ timestamp |-> timestamp, url |-> url,
                                    loadTime |-> loadTime, status |-> status,
                                    error |-> error, label |-> label ])
    /\ pc' = IF pending # Undefined THEN "rejected" ELSE "loop"
    /\ UNCHANGED << variant, configRows, idx, now, openBrowsers, timestamp, start,
                    loadTime, status, error, caught, pending, finalUrl, inlineTexts,
                    screenshotName, pageLog, faults >>

\* finally: await browser.close()
Close ==
    /\ pc = "close"
    /\ openBrowsers' = openBrowsers - 1
    /\ pc' = "log"
    /\ UNCHANGED << variant, configRows, idx, now, timestamp, start, loadTime, status,
                    error, caught, pending, finalUrl, inlineTexts, screenshotName,
                    pageLog, faults, results >>

OutcomeRow ==
    [ timestamp |-> timestamp, url |-> url, loadTime |-> loadTime,
      status |-> status, error |-> error, label |-> label ]

\* finally: await logResult([...]); an exception thrown by the catch block
\* then leaves run()
LogResult ==
    /\ pc = "log"
    /\ results' = Append(results, OutcomeRow)
    /\ pc' = IF pending # Undefined THEN "rejected" ELSE "loop"
    /\ UNCHANGED << variant, configRows, idx, now, openBrowsers, timestamp, start,
                    loadTime, status, error, caught, pending, finalUrl, inlineTexts,
                    screenshotName, pageLog, faults >>

\* after the loop: await logResult([`END OF BATCH ...`, '', '', '', '', ''])
Marker ==
    /\ pc = "loop"
    /\ idx = Len(configRows)
    /\ results' = Append(results, MarkerRow(now))
    /\ pc' = "done"
    /\ UNCHANGED << variant, configRows, idx, now, openBrowsers, timestamp, start,
                    loadTime, status, error, caught, pending, finalUrl, inlineTexts,
                    screenshotName, pageLog, faults >>

\* Time passes while run() is suspended.  The clock is only observed where
\* run() reads it, so it advances during the two waits that precede the reads:
\* opening the page (timestamp, start, e-mail token) and the settlement wait
\* (loadTime, screenshot name).
ClockReaders == {"newPage", "settle"}

Tick ==
    /\ pc \in ClockReaders
    /\ now < MaxClock
    /\ now' = now + 1
    /\ UNCHANGED << variant, configRows, pc, idx, openBrowsers, timestamp, start,
                    loadTime, status, error, caught, pending, finalUrl, inlineTexts,
                    screenshotName, pageLog, faults, results >>

Next ==
    \/ GetConfigRows
    \/ LoopNext
    \/ Launch
    \/ NewContext
    \/ NewPage
    \/ Goto
    \/ Consent
    \/ FillEmail
    \/ FillPassword
    \/ FillConfirm
    \/ ClickCheckbox
    \/ ClickSubmit
    \/ Settle
    \/ Scan
    \/ Screenshot
    \/ Close
    \/ LogResult
    \/ Marker
    \/ Tick

Spec == Init /\ [][Next]_vars

\* run() under the event loop: a continuation whose awaited promise has
\* settled is eventually resumed, so run() does not stop while a step is
\* enabled.
LiveSpec == Spec /\ WF_vars(Next)

\* ================================================================= claims
\* The row appended last, and the moments a target's row has just been
\* appended: run() is back at the loop head, or has been left by an exception
\* that the finally block let through.
Last == results[Len(results)]
TryEntered == status # Undefined
JustLogged == pc \in {"loop", "rejected"} /\ idx >= 1 /\ TryEntered
RunEnded == pc \in {"done", "rejected"}

FailedCall(op) == \E i \in 1..Len(pageLog) : pageLog[i].op = op /\ ~pageLog[i].ok
ScreenshotFailed == FailedCall("screenshot")
OnRegister == finalUrl # Undefined /\ Includes(finalUrl.v, <<"/register">>)
AcquisitionFailed == pending \in {Str(LaunchError), Str(ContextError), Str(PageError)}
IsMarker(r) == Len(r.timestamp.v) >= 1 /\ r.timestamp.v[1] = "END OF BATCH - "

\* C1: when run() has ended, the results sheet holds exactly one outcome row per
\* config row, in the order of the config rows, followed by exactly one
\* END OF BATCH marker row, which is the last row.
C1_OneRowPerTargetThenMarker ==
    RunEnded =>
        /\ Len(results) = Len(configRows) + 1
        /\ \A i \in 1..Len(configRows) :
              /\ i <= Len(results)
              /\ ~IsMarker(results[i])
              /\ results[i].url = Cell(configRows[i], ColUrl)
              /\ results[i].label = Cell(configRows[i], ColLabel)
              /\ results[i].status \in {StatusSuccess, StatusFailure}
        /\ Len(results) >= 1 /\ IsMarker(Last)

\* C2: when acquiring the session of a target fails (launch, newContext or
\* newPage throws), run() is not left: the target gets a Failure row and the
\* loop goes on.
C2_SessionFailureLoggedAndSurvived ==
    AcquisitionFailed =>
        /\ pc # "rejected"
        /\ Len(results) >= idx
        /\ results[idx].status = StatusFailure

\* C3: a failure inside a target's pipeline (navigation, fill, click,
\* classification or the failure screenshot, with or without a label cell)
\* never makes run() stop before the remaining rows and the marker.
C3_PipelineFailureNeverAborts ==
    (TryEntered /\ caught # Undefined) => pc # "rejected"

\* C4: once a target whose session was acquired has been processed (success,
\* classified failure, exception in the try block, exception in the
\* screenshot), its browser has been closed.
C4_BrowserClosedOnEveryExit ==
    (pc \in {"loop", "rejected", "done"} /\ idx >= 1 /\ TryEntered) => openBrowsers = 0

C4_Witness ==
    /\ JustLogged
    /\ ScreenshotFailed
    /\ openBrowsers = 0

\* C5: an exception thrown inside the try block yields a row with status
\* Failure, the exception's message as errorDetail and the N/A load time.
C5_ExceptionBecomesFailureRow ==
    (JustLogged /\ caught # Undefined) =>
        /\ Last.url = url
        /\ Last.status = StatusFailure
        /\ Last.error = caught
        /\ Last.loadTime = NotAvailable
        /\ FailedCall("goto") => Last.error = Str(GotoError)

C5_Witness ==
    /\ JustLogged
    /\ FailedCall("fill")
    /\ caught = Str(TimeoutError("fill", <<"#p">>))
    /\ Last.error = caught

\* C6: when page.screenshot throws, the row of the target is still a Failure
\* row whose errorDetail is the message of the original failure.
C6_ScreenshotFailureKeepsError ==
    (JustLogged /\ ScreenshotFailed) =>
        /\ Last.status = StatusFailure
        /\ Last.error = caught
        /\ Last.error # Str(ScreenshotError)

C6_Witness ==
    /\ JustLogged
    /\ ScreenshotFailed
    /\ Last.error = Str(MismatchMessage(<<"/welcome">>, <<"https://ex.test", "/other">>))

\* C7: when the URL read after the settlement wait contains /register, the row
\* has status Failure and a non-empty errorDetail, with or without inline
\* error text and whatever redirectURL is.
C7_RegisterIsFailure ==
    (JustLogged /\ OnRegister) =>
        /\ Last.status = StatusFailure
        /\ IsStr(Last.error)
        /\ Last.error.v # <<>>

C7_Witness ==
    /\ JustLogged
    /\ OnRegister
    /\ inlineTexts = <<>>
    /\ Truthy(redirectURL)
    /\ Includes(finalUrl.v, redirectURL.v)
    /\ Last.status = StatusFailure

\* C8: with a redirectURL configured that the final URL does not contain, and
\* a final URL without /register, the row is a Failure row whose errorDetail
\* contains both the expected substring and the final URL.
C8_MismatchIsFailure ==
    ( /\ JustLogged
      /\ finalUrl # Undefined
      /\ ~OnRegister
      /\ Truthy(redirectURL)
      /\ ~Includes(finalUrl.v, redirectURL.v) ) =>
        /\ Last.status = StatusFailure
        /\ Includes(Last.error.v, redirectURL.v)
        /\ Includes(Last.error.v, finalUrl.v)

\* C9: when the final URL contains /register and the page holds inline error
\* elements with non-blank text, the row is a Failure row whose errorDetail
\* contains each of those texts.
C9_InlineErrorsReported ==
    ( /\ JustLogged
      /\ OnRegister
      /\ \E i \in 1..Len(inlineTexts) : Trim(inlineTexts[i]) # <<>> ) =>
        /\ Last.status = StatusFailure
        /\ \A i \in 1..Len(inlineTexts) :
              Trim(inlineTexts[i]) # <<>> => Includes(Last.error.v, Trim(inlineTexts[i]))

\* C10: when nothing threw up to the settlement wait, the final URL has no
\* /register and redirectURL is absent or contained in it, the row has status
\* Success, an empty errorDetail and the elapsed time since navigation start.
C10_SuccessRow ==
    ( /\ JustLogged
      /\ finalUrl # Undefined
      /\ ~OnRegister
      /\ (Truthy(redirectURL) => Includes(finalUrl.v, redirectURL.v)) ) =>
        /\ Last.status = StatusSuccess
        /\ Last.error = Str(<<>>)
        /\ IsNum(Last.loadTime)
        /\ Last.loadTime.v = now - start.v
        /\ Last.timestamp = Str(IsoString(start.v))

C10_Witness ==
    /\ JustLogged
    /\ Truthy(redirectURL)
    /\ Last.status = StatusSuccess
    /\ Includes(finalUrl.v, redirectURL.v)
    /\ IsNum(Last.loadTime)
    /\ Last.loadTime.v > 0

\* ------------------------------------------------------- claims C11..C20
\* The cells of the configured rows with their surrounding whitespace removed
TrimmedRows == [r \in Rows |-> [c \in 1..Len(r) |-> Trim(r[c])]]
TrimmedCell(r, col) == TrimmedRows[r][col]

\* A cell that is absent (past the end of the row) or empty
CellBlank(r, col) == col > Len(r) \/ r[col] = <<>>

\* The calls of kind op that the page of the current target received for the
\* selector configured in column col (as written, or trimmed)
CallsFor(op, col) ==
    { i \in 1..Len(pageLog) :
        /\ pageLog[i].op = op
        /\ col <= Len(row)
        /\ pageLog[i].sel \in {Str(row[col]), Str(TrimmedCell(row, col))} }

FirstAt(e) == CHOOSE i \in 1..Len(e) : e[i] = "@" /\ \A j \in 1..(i - 1) : e[j] # "@"
LastAt(e) == CHOOSE i \in 1..Len(e) : e[i] = "@" /\ \A j \in (i + 1)..Len(e) : e[j] # "@"

\* C11: for a target with a confirm selector, no confirm value (absent or
\* empty cell) and a non-empty password value, every value filled into the
\* confirm field equals the password value.
C11_ConfirmGetsPassword ==
    ( /\ idx >= 1
      /\ ~CellBlank(row, ColConfirmSelector)
      /\ CellBlank(row, ColConfirmValue)
      /\ ~CellBlank(row, ColPasswordValue) ) =>
        \A i \in CallsFor("fill", ColConfirmSelector) :
            pageLog[i].val = Str(row[ColPasswordValue])

\* C12: for a target with an email selector whose email value contains '@',
\* every filled email is the original local part, '+', a clock value, '@' and
\* the original domain (what follows the first '@', or what follows the last
\* one); and different clock values give different emails.
C12_UniqueEmail ==
    ( /\ idx >= 1
      /\ ~CellBlank(row, ColEmailSelector)
      /\ ~CellBlank(row, ColEmailValue)
      /\ \E k \in 1..Len(row[ColEmailValue]) : row[ColEmailValue][k] = "@" ) =>
        LET e == row[ColEmailValue]
            local == SubSeq(e, 1, FirstAt(e) - 1)
            afterFirst == SubSeq(e, FirstAt(e) + 1, Len(e))
            afterLast == SubSeq(e, LastAt(e) + 1, Len(e))
        IN  /\ \A i \in CallsFor("fill", ColEmailSelector) :
                  \E t \in 0..MaxClock :
                      \/ pageLog[i].val = Str(local \o <<"+", ToString(t), "@">> \o afterFirst)
                      \/ /\ Len(pageLog[i].val.v) >= Len(local) + 3 + Len(afterLast)
                         /\ SubSeq(pageLog[i].val.v, 1, Len(local) + 3)
                                = local \o <<"+", ToString(t), "@">>
                         /\ SubSeq(pageLog[i].val.v,
                                   Len(pageLog[i].val.v) - Len(afterLast) + 1,
                                   Len(pageLog[i].val.v)) = afterLast
            /\ \A t1, t2 \in 0..MaxClock :
                  t1 # t2 => DynamicEmail(variant, Cell(row, ColEmailValue), t1)
                               # DynamicEmail(variant, Cell(row, ColEmailValue), t2)

\* The five interaction steps, the column of each one's selector and the
\* step that follows
Steps == {"email", "password", "confirm", "checkbox", "submit"}
StepCol(p) ==
    CASE p = "email" -> ColEmailSelector
      [] p = "password" -> ColPasswordSelector
      [] p = "confirm" -> ColConfirmSelector
      [] p = "checkbox" -> ColCheckboxSelector
      [] p = "submit" -> ColSubmitButtonSelector
StepNext(p) ==
    CASE p = "email" -> "password"
      [] p = "password" -> "confirm"
      [] p = "confirm" -> "checkbox"
      [] p = "checkbox" -> "submit"
      [] p = "submit" -> "settle"
Interactions == { i \in 1..Len(pageLog) : pageLog[i].op \in {"fill", "click"} }

C14_SelectorsTrimmed ==
    \A i \in Interactions :
        /\ pageLog[i].sel.v # <<>>
        /\ pageLog[i].sel.v = Trim(pageLog[i].sel.v)
        /\ \E p \in Steps :
              /\ StepCol(p) <= Len(row)
              /\ pageLog[i].sel.v = Trim(row[StepCol(p)])

\* C15: whatever happens in the consent stage, it follows a successful
\* navigation, leaves status, loadTime, the error text and the caught
\* exception as they were, and hands over to the first field step.
C15_ConsentSwallowed ==
    [][ pc = "consent" =>
            /\ pageLog[Len(pageLog)] = Call("goto", url, Undefined, TRUE)
            /\ pc' = "email"
            /\ UNCHANGED << status, loadTime, error, caught, pending >> ]_vars

\* A target whose consent stage ended in its catch was logged as a Success
C15_Witness ==
    /\ JustLogged
    /\ Last.status = StatusSuccess
    /\ Last.error = Str(<<>>)
    /\ \E i \in 1..Len(pageLog) : pageLog[i].op = "consent" /\ ~pageLog[i].ok

\* The outcome rows of the results sheet (every row but the marker)
OutcomeRows == { i \in 1..Len(results) : ~IsMarker(results[i]) }

\* C16: at most one browser is open at any time, and a target's browser is
\* launched only when no browser is open and every earlier target has its row
\* in the results sheet.
C16_OneSessionAtATime ==
    /\ openBrowsers <= 1
    /\ pc = "launch" => (openBrowsers = 0 /\ Len(results) = idx - 1)
    /\ pc \in {"newContext", "newPage"} => Len(results) = idx - 1

\* The second target is about to be launched; the first one's browser was
\* opened and closed and its row appended
C16_Witness ==
    /\ pc = "launch"
    /\ idx = 2
    /\ openBrowsers = 0
    /\ Len(results) = 1
    /\ ~IsMarker(results[1])

\* C17: if no wait hangs forever, run() ends with a row for every target and
\* the marker appended after them, whichever of the waits inside the try
\* block or the catch block timed out (a failure to open the session, which
\* is none of those waits, is set aside).
C17_RunTerminatesWithAllRows ==
    <>( \/ AcquisitionFailed
        \/ /\ pc = "done"
           /\ Len(results) = Len(configRows) + 1
           /\ IsMarker(Last)
           /\ \A i \in 1..Len(configRows) : ~IsMarker(results[i]) )

\* C18: in every outcome row loadTime is a number exactly when status is
\* Success, and every Failure row carries the text N/A.
C18_LoadTimeNumberIffSuccess ==
    \A i \in OutcomeRows :
        /\ IsNum(results[i].loadTime) <=> results[i].status = StatusSuccess
        /\ results[i].status = StatusFailure => results[i].loadTime = Str(<<"N/A">>)
        /\ results[i].status \in {StatusSuccess, StatusFailure}

\* The sheet holds a Success row with a number and a Failure row with N/A
C18_Witness ==
    /\ \E i \in OutcomeRows :
          results[i].status = StatusSuccess /\ IsNum(results[i].loadTime)
    /\ \E i \in OutcomeRows :
          results[i].status = StatusFailure /\ results[i].loadTime = Str(<<"N/A">>)

\* C19: in every outcome row the error text is empty when status is Success
\* and non-empty when status is Failure.
C19_ErrorDetailMatchesStatus ==
    \A i \in OutcomeRows :
        /\ results[i].status = StatusSuccess => results[i].error = Str(<<>>)
        /\ results[i].status = StatusFailure =>
              (IsStr(results[i].error) /\ results[i].error.v # <<>>)

\* The sheet holds a Success row without error text and a Failure row with one
C19_Witness ==
    /\ \E i \in OutcomeRows :
          results[i].status = StatusSuccess /\ results[i].error = Str(<<>>)
    /\ \E i \in OutcomeRows :
          results[i].status = StatusFailure /\ results[i].error.v # <<>>

\* C20: when the label cell of a target is absent, the label in its outcome
\* row is 'unknown', and so is the label in the name of its failure
\* screenshot.
C20_AbsentLabelIsUnknown ==
    (JustLogged /\ ColLabel > Len(row)) =>
        /\ Last.label = Str(<<"unknown">>)
        /\ caught # Undefined =>
              /\ IsStr(screenshotName)
              /\ Len(screenshotName.v) >= 2
              /\ SubSeq(screenshotName.v, 1, 2) = <<"fail_", "unknown">>

\* ------------------------------------------------------- claims C21..C27
\* A selector cell that holds more than whitespace
CellPresent(r, col) == col <= Len(r) /\ TrimmedCell(r, col) # <<>>

\* The clicks the page of the current target received for its checkbox
CheckboxClicks == CallsFor("click", ColCheckboxSelector)

\* Every call but the consent handling before position i went through
AllOkBefore(i) ==
    \A j \in 1..(i - 1) : pageLog[j].op # "consent" => pageLog[j].ok

\* C21 as stated: once a target with a checkbox selector has its row, its
\* checkbox was clicked exactly once, whatever happened to the earlier steps.
C21_CheckboxClickedOnceAlways ==
    (JustLogged /\ CellPresent(row, ColCheckboxSelector)) =>
        Cardinality(CheckboxClicks) = 1

\* C21 amended: a target with a checkbox selector has its checkbox clicked
\* exactly once when it gets past the checkbox step; over its whole
\* processing the checkbox is clicked at most once, exactly once when its row
\* is a Success, and a click implies that every earlier navigation and fill
\* went through.
C21_CheckboxClickedOnceWhenReached ==
    ((pc = "submit" \/ JustLogged) /\ CellPresent(row, ColCheckboxSelector)) =>
        LET clicks == CheckboxClicks
        IN  /\ Cardinality(clicks) <= 1
            /\ pc = "submit" => Cardinality(clicks) = 1
            /\ (JustLogged /\ Last.status = StatusSuccess) => Cardinality(clicks) = 1
            /\ \A i \in clicks : AllOkBefore(i)

\* A target with a checkbox selector was logged as a Success after one click
\* of its checkbox
C21_Witness ==
    /\ JustLogged
    /\ CellPresent(row, ColCheckboxSelector)
    /\ Last.status = StatusSuccess
    /\ Cardinality(CheckboxClicks) = 1
    /\ \A i \in CheckboxClicks : pageLog[i].ok

\* The place of a page call in the order navigate, consent, email, password,
\* confirm, checkbox, submit, settlement wait, inline-error scan, screenshot
StepRank(p) ==
    CASE p = "email" -> 3
      [] p = "password" -> 4
      [] p = "confirm" -> 5
      [] p = "checkbox" -> 6
      [] p = "submit" -> 7
SelIs(e, col) ==
    col <= Len(row) /\ (e.sel.v = row[col] \/ e.sel.v = TrimmedCell(row, col))
Rank(e) ==
    CASE e.op = "goto" -> 1
      [] e.op = "consent" -> 2
      [] e.op = "fill" ->
            IF SelIs(e, ColEmailSelector) THEN StepRank("email")
            ELSE IF SelIs(e, ColPasswordSelector) THEN StepRank("password")
            ELSE IF SelIs(e, ColConfirmSelector) THEN StepRank("confirm")
            ELSE 0
      [] e.op = "click" ->
            IF SelIs(e, ColCheckboxSelector) THEN StepRank("checkbox")
            ELSE IF SelIs(e, ColSubmitButtonSelector) THEN StepRank("submit")
            ELSE 0
      [] e.op = "wait" -> 8
      [] e.op = "$$eval" -> 9
      [] e.op = "screenshot" -> 10
      [] OTHER -> 0
SubmitClicks == CallsFor("click", ColSubmitButtonSelector)

\* C22: the page calls of one target come in the order navigate, consent
\* handling, email fill, password fill, confirm fill, checkbox click, submit
\* click, URL evaluation, each at most once: every call run() makes comes
\* later in that order than the call before it, the first one being the
\* navigation.  And the submit button is clicked only when navigation, every
\* configured fill and the configured checkbox click have completed without
\* throwing.
C22_InteractionOrder ==
    [][ /\ Len(pageLog') > Len(pageLog) =>
              LET i == Len(pageLog) + 1
                  r == Rank(pageLog'[i])
              IN  /\ Len(pageLog') = i
                  /\ SubSeq(pageLog', 1, i - 1) = pageLog
                  /\ IF i = 1 THEN r = 1 ELSE Rank(pageLog[i - 1]) < r
                  /\ r = 8 <=> (finalUrl = Undefined /\ finalUrl' # Undefined)
                  /\ r = StepRank("submit") =>
                        /\ AllOkBefore(i)
                        /\ pageLog[1] = Call("goto", Cell(row, ColUrl), Undefined, TRUE)
                        /\ \A p \in Steps \ {"submit"} :
                              CellPresent(row, StepCol(p)) =>
                                  \E j \in 1..(i - 1) :
                                      Rank(pageLog[j]) = StepRank(p) /\ pageLog[j].ok
        /\ Len(pageLog') < Len(pageLog) => (pc = "loop" /\ pageLog' = <<>>) ]_vars

\* A target with every step configured has been submitted and evaluated:
\* eight page calls, the submit click seventh
C22_Witness ==
    /\ pc = "close"
    /\ \A p \in Steps : CellPresent(row, StepCol(p))
    /\ Len(pageLog) = 8
    /\ 7 \in SubmitClicks
    /\ pageLog[8].op = "wait"
    /\ status = StatusSuccess

\* The settlement waits in the page log of the current target
Waits == { i \in 1..Len(pageLog) : pageLog[i].op = "wait" }

\* What page.url() reported is acceptable: not the form's own URL, and the
\* expected redirect when one is configured
UrlAcceptable ==
    /\ IsStr(finalUrl)
    /\ ~Includes(finalUrl.v, <<"/register">>)
    /\ CellBlank(row, ColRedirectURL) \/ Includes(finalUrl.v, row[ColRedirectURL])

Shots == { i \in 1..Len(pageLog) : pageLog[i].op = "screenshot" }

\* C24: a screenshot is attempted at most once per target and only for a
\* target whose row is a Failure: the attempt is made with an exception caught
\* and status Failure, and a Success row has no attempt behind it.
C24_ScreenshotOnlyOnFailure ==
    /\ pc = "screenshot" => (status = StatusFailure /\ caught # Undefined)
    /\ JustLogged =>
          LET shots == Shots
          IN  /\ Cardinality(shots) <= 1
              /\ shots # {} => (Last.status = StatusFailure /\ caught # Undefined)
              /\ Last.status = StatusSuccess => shots = {}

\* A Failure row was appended for a target with exactly one screenshot
\* attempt, after a Success row of a target with none
C24_Witness ==
    /\ JustLogged
    /\ idx = 2
    /\ results[1].status = StatusSuccess
    /\ Last.status = StatusFailure
    /\ Cardinality(Shots) = 1

\* C25: a screenshot is attempted only while the browser of its target is
\* open and stays open, and the browser is closed only at the start of the
\* finally block, after which the target makes no page call.
C25_ScreenshotBeforeClose ==
    [][ /\ Cardinality(Shots') > Cardinality(Shots) =>
              (openBrowsers = 1 /\ openBrowsers' = 1 /\ pc' = "close")
        /\ openBrowsers' < openBrowsers => (pc = "close" /\ pc' = "log")
        /\ pc = "log" => pageLog' = pageLog ]_vars

\* The screenshot of a failing target has been attempted and its browser is
\* still open, about to be closed
C25_Witness ==
    /\ pc = "close"
    /\ Shots # {}
    /\ openBrowsers = 1
    /\ caught # Undefined

\* C26: the row of a target is appended only after its browser was closed:
\* no browser is open when the row is about to be appended, nor at any time
\* the results sheet holds the row of the current target.
C26_RowAfterClose ==
    /\ pc = "log" => openBrowsers = 0
    /\ (idx >= 1 /\ Len(results) >= idx) => openBrowsers = 0
    /\ (idx >= 1 /\ openBrowsers = 1) => Len(results) = idx - 1

\* The row of the first target has just been appended, its browser closed
C26_Witness ==
    /\ JustLogged
    /\ idx = 1
    /\ Len(results) = 1
    /\ openBrowsers = 0
    /\ \E i \in 1..Len(pageLog) : pageLog[i].op = "goto"

\* C27: outcome state does not leak between targets.  Every target starts
\* from status Failure, loadTime N/A and an empty error text, and its row is
\* fixed by what happened to that target alone: Success with an empty error
\* and this target's own elapsed time when nothing was caught, Failure with
\* N/A and the text of this target's own exception otherwise.
C27_NoLeakBetweenTargets ==
    /\ pc = "goto" =>
          /\ status = StatusFailure
          /\ loadTime = Str(<<"N/A">>)
          /\ error = Str(<<>>)
          /\ caught = Undefined
          /\ pageLog = <<>>
    /\ JustLogged =>
          IF caught = Undefined
          THEN /\ Last.status = StatusSuccess
               /\ Last.error = Str(<<>>)
               /\ IsNum(Last.loadTime)
               /\ Last.loadTime.v \in 0..(now - start.v)
          ELSE /\ Last.status = StatusFailure
               /\ Last.loadTime = Str(<<"N/A">>)
               /\ Last.error = Str(IF caught.v = <<>> /\ variant = "part_000"
                                   THEN <<"Error">> ELSE caught.v)

\* The second target has a Success row although the first one failed
C27_Witness ==
    /\ JustLogged
    /\ idx = 2
    /\ Len(results) = 2
    /\ results[1].status = StatusFailure
    /\ results[1].error.v # <<>>
    /\ Last.status = StatusSuccess
    /\ Last.error = Str(<<>>)

====
